---- MODULE Spec2Model ----
(***************************************************************************)
(* Image-processing job lifecycle of the room-segmentation backend          *)
(* (src/app.py with the ImageRecord table of src/appp/models).              *)
(*                                                                          *)
(* upload_image is a coroutine: it is cut at its awaits, so that uploads    *)
(* of different requests interleave exactly where the event loop can switch *)
(* between them.  get_result and get_history have a single await (the       *)
(* query) followed by synchronous code and are one step each.               *)
(* The Blob Store (MinIO), the Record Store (the ORM session's commit and   *)
(* refresh) and the segmentation worker are the environment: each call      *)
(* either succeeds or raises.                                               *)
(***************************************************************************)
EXTENDS Integers, Sequences, FiniteSets, TLC

(* ------------------------------ bounds --------------------------------- *)
MaxSubmits == 2      \* uploads accepted by the dispatcher in one run
MaxClock   == 1      \* readings of the wall clock after process start

Procs == {1, 2}      \* upload requests that can be in flight together
Users == {1, 2}      \* user.id of the authenticated users

(* ------------------------------ inputs --------------------------------- *)
\* content types are character sequences, so that the prefix test is computed
CT_image_png  == <<"i","m","a","g","e","/","p","n","g">>
CT_text_plain == <<"t","e","x","t","/","p","l","a","i","n">>
CT_image      == <<"i","m","a","g","e">>
ContentTypes  == {CT_image_png, CT_text_plain, CT_image}
ImagePrefix   == <<"i","m","a","g","e","/">>

FileNames == {"a.png"}
FileBytes == {"png"}

None       == <<>>
NoRecord   == [id |-> 0, status |-> "", result_filename |-> None]
\* a response: the HTTP code and body fields, with the request it answers
\* (op, user, content_type, image_id) and, for an upload, the id of the row the
\* call inserted (job, 0: none) and the calls that raised during it (faults)
NoReply    == [op |-> "", user |-> 0, content_type |-> <<>>, image_id |-> 0,
               job |-> 0, faults |-> {},
               code |-> 0, detail |-> "", id |-> 0,
               status |-> "", url |-> None, history |-> <<>>]

VARIABLES
  records,      \* table "images": id -> persisted row
  nextId,       \* next value of the integer primary key
  blobs,        \* bucket MINIO_BUCKET: object key -> bytes
  clock,        \* datetime.now(timezone.utc)
  import_time,  \* value of datetime.now() when the ImageRecord class was built
  req,          \* per upload request: position in upload_image and its locals
  submitted,    \* number of uploads accepted so far
  returned,     \* history: the ids upload_image has returned with status "done"
  reply         \* the response produced by the last step, until it is sent

vars == <<records, nextId, blobs, clock, import_time, req, submitted, returned,
          reply>>

\* locals of one upload_image call; job and faults are history fields: the id of
\* the row this call inserted (0: none) and the calls that raised during it
IdleReq == [pc |-> "idle", user |-> 0, content_type |-> <<>>, fname |-> "",
            file_bytes |-> "", object_name |-> None, record |-> NoRecord,
            job |-> 0, faults |-> {}]

(* ---------------------------- pure helpers ----------------------------- *)
\* a bug: the test stops at the end of the shorter string
startswith_short(s, prefix) ==
  \A i \in 1..(IF Len(s) < Len(prefix) THEN Len(s) ELSE Len(prefix)) :
    s[i] = prefix[i]

\* str.startswith
startswith(s, prefix) ==
  /\ Len(s) >= Len(prefix)
  /\ \A i \in 1..Len(prefix) : s[i] = prefix[i]

\* f"uploads/{user.id}_{timestamp}_{file.filename}"
ObjectName(user, timestamp, fname) == <<"uploads", user, timestamp, fname>>

\* a bug: the id left out of the key of the result
ResultFilename_shared(id) == <<"results", 0>>

\* f"results/result_{record.id}.png"
ResultFilename(id) == <<"results", id>>

\* simulate_segmentation_bytes: the PNG bytes of the image with the overlay
simulate_segmentation_bytes(b) == "seg_" \o b

\* minio_client.put_object
put_object(store, key, data) ==
  [k \in (DOMAIN store) \cup {key} |-> IF k = key THEN data ELSE store[k]]

\* minio_client.presigned_get_object(..., expires=timedelta(hours=1))
presigned_get_object(key) == <<"signed", key>>

\* ImageRecord(owner_id=..., filename=...) as INSERTed by the first commit
ImageRecord(id, owner, filename) ==
  [id |-> id, owner_id |-> owner, filename |-> filename,
   result_filename |-> None, status |-> "processing",
   created_at |-> import_time]

\* db.commit() of a loaded record: flushes the attributes set on the object
CommitRecord(recs, rec) ==
  [recs EXCEPT ![rec.id].status = rec.status,
               ![rec.id].result_filename = rec.result_filename]

\* upload_image returns or raises: the response that goes out
Respond(r, code, detail, id, fault) ==
  [NoReply EXCEPT !.op = "upload_image", !.user = r.user,
                  !.content_type = r.content_type,
                  !.job = r.job, !.faults = r.faults \cup fault,
                  !.code = code, !.detail = detail, !.id = id]

(* ------------------------------- Init ---------------------------------- *)
Init ==
  /\ records = << >>
  /\ nextId = 1
  /\ blobs = << >>
  /\ clock = 0
  /\ import_time = 0
  /\ req = [p \in Procs |-> IdleReq]
  /\ submitted = 0
  /\ returned = {}
  /\ reply = NoReply

\* minio_client.put_object is a synchronous call made from the coroutine: from
\* the call to its return the thread of the event loop is inside it
BlockingCalls == {"in_put_original", "in_put_result"}
Blocked == \E p \in Procs : req[p].pc \in BlockingCalls

\* The event loop is single-threaded: it runs the next handler step when no
\* handler is inside a synchronous call, and the response a handler produced is
\* sent before that.
Ready == reply = NoReply /\ ~Blocked

send_response ==
  /\ reply # NoReply
  /\ reply' = NoReply
  /\ UNCHANGED <<records, nextId, blobs, clock, import_time, req, submitted,
                 returned>>

(* --------------------------- upload_image ------------------------------ *)
\* the coroutine goes on to its next await / it ends with a response
Continue(r) == [req |-> r, reply |-> NoReply]
Finish(r, code, detail, id, fault) ==
  [req |-> IdleReq, reply |-> Respond(r, code, detail, id, fault)]

\* lines 180-184: the content-type test, then await file.read()
Begin(user, ct, fname, b) ==
  IF ~startswith(ct, ImagePrefix)
  THEN Finish([IdleReq EXCEPT !.user = user, !.content_type = ct],
              400, "Only image files supported", 0, {})
  ELSE Continue([IdleReq EXCEPT !.pc = "put_original", !.user = user,
                                !.content_type = ct, !.fname = fname,
                                !.file_bytes = b])

upload_image_begin(p) ==
  /\ Ready
  /\ req[p].pc = "idle"
  /\ \A q \in Procs : q < p => req[q].pc # "idle"   \* the first free slot
  /\ submitted < MaxSubmits
  /\ \E user \in Users, ct \in ContentTypes, fname \in FileNames, b \in FileBytes :
       /\ req' = [req EXCEPT ![p] = Begin(user, ct, fname, b).req]
       /\ reply' = Begin(user, ct, fname, b).reply
  /\ submitted' = submitted + 1
  /\ UNCHANGED <<records, nextId, blobs, clock, import_time, returned>>

\* a bug: the S3Error of the put is swallowed and the handler goes on
AfterPutOriginal_swallow(r, object_name, ok) ==
  Continue([r EXCEPT !.pc = "commit_new", !.object_name = object_name])

\* lines 191-201: after put_object of the original: db.add and the commit, or
\* the S3Error leaves the handler
AfterPutOriginal(r, object_name, ok) ==
  IF ok
  THEN Continue([r EXCEPT !.pc = "commit_new", !.object_name = object_name])
  ELSE Finish(r, 500, "Internal Server Error", 0, {"put_original"})

\* lines 186-191: file.read() has returned; the key from the clock, and the
\* call of put_object for the original
upload_put_original(p) ==
  /\ Ready
  /\ req[p].pc = "put_original"
  /\ req' = [req EXCEPT ![p].pc = "in_put_original",
                         ![p].object_name =
                            ObjectName(req[p].user, clock, req[p].fname)]
  /\ reply' = NoReply
  /\ UNCHANGED <<records, nextId, blobs, clock, import_time, submitted,
                 returned>>

\* lines 191-201: put_object of the original returns or raises; db.add
put_original_return(p) ==
  /\ reply = NoReply
  /\ req[p].pc = "in_put_original"
  /\ LET r == req[p]
     IN \E ok \in BOOLEAN :
          /\ blobs' = IF ok THEN put_object(blobs, r.object_name, r.file_bytes)
                            ELSE blobs
          /\ req' = [req EXCEPT ![p] = AfterPutOriginal(r, r.object_name, ok).req]
          /\ reply' = AfterPutOriginal(r, r.object_name, ok).reply
  /\ UNCHANGED <<records, nextId, clock, import_time, submitted, returned>>

\* line 202: await db.commit() INSERTs the row; the key comes from the sequence
upload_commit_new(p) ==
  /\ Ready
  /\ req[p].pc = "commit_new"
  /\ LET r == req[p]
     IN \E ok \in BOOLEAN :
          IF ok
          THEN /\ records' = [id \in (DOMAIN records) \cup {nextId} |->
                                IF id = nextId
                                THEN ImageRecord(nextId, r.user, r.object_name)
                                ELSE records[id]]
               /\ nextId' = nextId + 1
               /\ req' = [req EXCEPT ![p].pc = "refresh", ![p].job = nextId]
               /\ reply' = NoReply
          ELSE /\ UNCHANGED <<records, nextId>>
               /\ req' = [req EXCEPT ![p] = IdleReq]
               /\ reply' = Respond(r, 500, "Internal Server Error", 0,
                                   {"commit_new"})
  /\ UNCHANGED <<blobs, clock, import_time, submitted, returned>>

\* lines 203-207: await db.refresh(record) loads the row; then the try block is
\* entered and run_segmentation_bytes hands the bytes to the executor
upload_refresh(p) ==
  /\ Ready
  /\ req[p].pc = "refresh"
  /\ LET r == req[p]
         row == records[r.job]
     IN \E ok \in BOOLEAN :
          IF ok
          THEN /\ req' = [req EXCEPT ![p].pc = "await_worker",
                                      ![p].record =
                                         [id |-> row.id, status |-> row.status,
                                          result_filename |-> row.result_filename]]
               /\ reply' = NoReply
          ELSE /\ req' = [req EXCEPT ![p] = IdleReq]
               /\ reply' = Respond(r, 500, "Internal Server Error", 0, {"refresh"})
  /\ UNCHANGED <<records, nextId, blobs, clock, import_time, submitted,
                 returned>>

\* a bug: line 221 (record.status = "done") left out
SetDone_noStatus(r, result_filename) ==
  [r EXCEPT !.pc = "commit_done",
            !.record.result_filename = result_filename]

\* lines 220-221: the attributes set on the record before the commit of "done"
SetDone(r, result_filename) ==
  [r EXCEPT !.pc = "commit_done",
            !.record.result_filename = result_filename,
            !.record.status = "done"]

\* lines 224-225: except Exception: record.status = "failed", then the commit
ExceptHandler(r, fault) ==
  [r EXCEPT !.pc = "commit_failed",
            !.record.status = "failed",
            !.faults = r.faults \cup {fault}]

\* a bug: the outcome of the put of the result not looked at
AfterWorker_ignorePut(r, worker_ok, put_ok) ==
  IF ~worker_ok THEN ExceptHandler(r, "worker")
  ELSE SetDone(r, ResultFilename(r.record.id))

\* lines 207-225: what follows the worker: the except clause when it raised,
\* else the put of the result and, by its outcome, lines 220-221 or the except
AfterWorker(r, worker_ok, put_ok) ==
  IF ~worker_ok THEN ExceptHandler(r, "worker")
  ELSE IF ~put_ok THEN ExceptHandler(r, "put_result")
  ELSE SetDone(r, ResultFilename(r.record.id))

\* lines 207-212: the executor finishes simulate_segmentation_bytes, which returns
\* the bytes or raises (Image.open on bytes that do not decode, for one); on
\* success put_object is called for results/result_<id>.png
worker_complete(p) ==
  /\ Ready
  /\ req[p].pc = "await_worker"
  /\ \E worker_ok \in BOOLEAN :
       req' = [req EXCEPT ![p] =
                 IF worker_ok THEN [req[p] EXCEPT !.pc = "in_put_result"]
                              ELSE AfterWorker(req[p], FALSE, TRUE)]
  /\ reply' = NoReply
  /\ UNCHANGED <<records, nextId, blobs, clock, import_time, submitted,
                 returned>>

\* lines 212-225: put_object of the result returns or raises
put_result_return(p) ==
  /\ reply = NoReply
  /\ req[p].pc = "in_put_result"
  /\ LET r == req[p]
     IN \E put_ok \in BOOLEAN :
          /\ blobs' = IF put_ok
                      THEN put_object(blobs, ResultFilename(r.record.id),
                                      simulate_segmentation_bytes(r.file_bytes))
                      ELSE blobs
          /\ req' = [req EXCEPT ![p] = AfterWorker(r, TRUE, put_ok)]
  /\ reply' = NoReply
  /\ UNCHANGED <<records, nextId, clock, import_time, submitted, returned>>

\* a bug: the handler of lines 224-227 written as a finally clause, so that it
\* also runs after a commit of "done" that succeeded
AfterCommitDone_finally(r, ok) == Continue(ExceptHandler(r, "commit_done"))

\* where control goes after the commit of "done": line 229 or the except clause
AfterCommitDone(r, ok) ==
  IF ok THEN Finish(r, 200, "done", r.record.id, {})
        ELSE Continue(ExceptHandler(r, "commit_done"))

\* line 222: await db.commit() of result_filename and status = "done"
upload_commit_done(p) ==
  /\ Ready
  /\ req[p].pc = "commit_done"
  /\ \E ok \in BOOLEAN :
       /\ records' = IF ok THEN CommitRecord(records, req[p].record) ELSE records
       /\ req' = [req EXCEPT ![p] = AfterCommitDone(req[p], ok).req]
       /\ reply' = AfterCommitDone(req[p], ok).reply
  /\ returned' = IF reply'.code = 200 THEN returned \cup {reply'.id} ELSE returned
  /\ UNCHANGED <<nextId, blobs, clock, import_time, submitted>>

\* lines 226-227: await db.commit() inside the except clause, then the
\* HTTPException(500); a commit that raises here leaves the handler with it
upload_commit_failed(p) ==
  /\ Ready
  /\ req[p].pc = "commit_failed"
  /\ \E ok \in BOOLEAN :
       /\ records' = IF ok THEN CommitRecord(records, req[p].record) ELSE records
       /\ reply' = IF ok
                   THEN Respond(req[p], 500, "Segmentation failed", 0, {})
                   ELSE Respond(req[p], 500, "Internal Server Error", 0,
                                {"commit_failed"})
  /\ req' = [req EXCEPT ![p] = IdleReq]
  /\ UNCHANGED <<nextId, blobs, clock, import_time, submitted, returned>>

(* ----------------------------- get_result ------------------------------ *)
\* a bug: the status test of line 242 placed before the owner test of line 239
ResultView_statusFirst(recs, user, image_id, sign_ok) ==
  LET v == [NoReply EXCEPT !.op = "get_result", !.user = user,
                           !.image_id = image_id]
  IN IF image_id \notin DOMAIN recs
     THEN [v EXCEPT !.code = 404]
     ELSE IF recs[image_id].status # "done"
     THEN [v EXCEPT !.code = 200, !.status = recs[image_id].status]
     ELSE IF recs[image_id].owner_id # user
     THEN [v EXCEPT !.code = 403]
     ELSE IF ~sign_ok
     THEN [v EXCEPT !.code = 500]
     ELSE [v EXCEPT !.code = 200, !.status = "done",
                    !.url = presigned_get_object(recs[image_id].result_filename)]

\* a bug: the owner test of line 239 placed before the test of line 237, so
\* that record.owner_id is read on None and the handler raises
ResultView_ownerFirst(recs, user, image_id, sign_ok) ==
  LET v == [NoReply EXCEPT !.op = "get_result", !.user = user,
                           !.image_id = image_id]
  IN IF image_id \notin DOMAIN recs
     THEN [v EXCEPT !.code = 500]
     ELSE IF recs[image_id].owner_id # user
     THEN [v EXCEPT !.code = 403]
     ELSE IF recs[image_id].status # "done"
     THEN [v EXCEPT !.code = 200, !.status = recs[image_id].status]
     ELSE IF ~sign_ok
     THEN [v EXCEPT !.code = 500]
     ELSE [v EXCEPT !.code = 200, !.status = "done",
                    !.url = presigned_get_object(recs[image_id].result_filename)]

\* a bug: every row that is not done reported as still processing
ResultView_notReady(recs, user, image_id, sign_ok) ==
  LET v == [NoReply EXCEPT !.op = "get_result", !.user = user,
                           !.image_id = image_id]
  IN IF image_id \notin DOMAIN recs
     THEN [v EXCEPT !.code = 404]
     ELSE IF recs[image_id].owner_id # user
     THEN [v EXCEPT !.code = 403]
     ELSE IF recs[image_id].status # "done"
     THEN [v EXCEPT !.code = 200, !.status = "processing"]
     ELSE IF ~sign_ok
     THEN [v EXCEPT !.code = 500]
     ELSE [v EXCEPT !.code = 200, !.status = "done",
                    !.url = presigned_get_object(recs[image_id].result_filename)]

\* lines 235-254
ResultView(recs, user, image_id, sign_ok) ==
  LET v == [NoReply EXCEPT !.op = "get_result", !.user = user,
                          !.image_id = image_id]
  IN IF image_id \notin DOMAIN recs
     THEN [v EXCEPT !.code = 404]
     ELSE IF recs[image_id].owner_id # user
     THEN [v EXCEPT !.code = 403]
     ELSE IF recs[image_id].status # "done"
     THEN [v EXCEPT !.code = 200, !.status = recs[image_id].status]
     ELSE IF ~sign_ok
     THEN [v EXCEPT !.code = 500]
     ELSE [v EXCEPT !.code = 200, !.status = "done",
                    !.url = presigned_get_object(recs[image_id].result_filename)]

get_result ==
  /\ Ready
  /\ \E user \in Users, image_id \in 1..MaxSubmits, sign_ok \in BOOLEAN :
       reply' = ResultView(records, user, image_id, sign_ok)
  /\ UNCHANGED <<records, nextId, blobs, clock, import_time, req, submitted,
                 returned>>

(* ----------------------------- get_history ----------------------------- *)
\* lines 263-266: select(ImageRecord).where(ImageRecord.owner_id == user.id)
OwnedIds(recs, user) == {id \in DOMAIN recs : recs[id].owner_id = user}

\* lines 272-294: one entry of the history
HistoryEntry(r) ==
  [id |-> r.id, created_at |-> r.created_at, status |-> r.status,
   original_url |-> presigned_get_object(r.filename),
   result_url |-> IF r.result_filename # None
                  THEN presigned_get_object(r.result_filename)
                  ELSE None]

\* the keys the loop of lines 270-286 signs
SignedKeys(recs, ids) ==
  {recs[id].filename : id \in ids} \cup
  {recs[id].result_filename : id \in {i \in ids : recs[i].result_filename # None}}

RECURSIVE HistoryOf(_, _)
HistoryOf(recs, ids) ==
  IF ids = {} THEN << >>
  ELSE LET id == CHOOSE i \in ids : \A j \in ids : i <= j
       IN <<HistoryEntry(recs[id])>> \o HistoryOf(recs, ids \ {id})

\* lines 258-296; unsigned is the set of keys for which signing raises
HistoryView(recs, user, unsigned) ==
  LET v == [NoReply EXCEPT !.op = "get_history", !.user = user]
      ids == OwnedIds(recs, user)
  IN IF SignedKeys(recs, ids) \cap unsigned # {}
     THEN [v EXCEPT !.code = 500]
     ELSE [v EXCEPT !.code = 200, !.history = HistoryOf(recs, ids)]

get_history ==
  /\ Ready
  /\ \E user \in Users :
       \E unsigned \in SUBSET SignedKeys(records, OwnedIds(records, user)) :
         reply' = HistoryView(records, user, unsigned)
  /\ UNCHANGED <<records, nextId, blobs, clock, import_time, req, submitted,
                 returned>>

(* -------------------------------- clock -------------------------------- *)
Tick ==
  /\ Ready
  /\ clock < MaxClock
  /\ clock' = clock + 1
  /\ reply' = NoReply
  /\ UNCHANGED <<records, nextId, blobs, import_time, req, submitted, returned>>

Next ==
  \/ \E p \in Procs : upload_image_begin(p)
  \/ \E p \in Procs : upload_put_original(p)
  \/ \E p \in Procs : put_original_return(p)
  \/ \E p \in Procs : upload_commit_new(p)
  \/ \E p \in Procs : upload_refresh(p)
  \/ \E p \in Procs : worker_complete(p)
  \/ \E p \in Procs : put_result_return(p)
  \/ \E p \in Procs : upload_commit_done(p)
  \/ \E p \in Procs : upload_commit_failed(p)
  \/ get_result
  \/ get_history
  \/ Tick
  \/ send_response

Spec == Init /\ [][Next]_vars

\* the steps of upload_image that wait on the database, on MinIO or on the
\* event loop itself, and not the step that waits on the executor
upload_step_but_worker(p) ==
  \/ upload_put_original(p)
  \/ put_original_return(p)
  \/ upload_commit_new(p)
  \/ upload_refresh(p)
  \/ put_result_return(p)
  \/ upload_commit_done(p)
  \/ upload_commit_failed(p)

\* The event loop resumes every coroutine whose awaited call has returned, and
\* the calls to the database and to MinIO return or raise; a coroutine is ready
\* off and on (the loop sends the responses of others in between), hence SF.
\* Nothing makes the function given to run_in_executor return (lines 169-171
\* pass no timeout), so worker_complete is under no fairness condition.
FairSpec ==
  /\ Spec
  /\ WF_vars(send_response)
  /\ \A p \in Procs : SF_vars(upload_step_but_worker(p))

(* ======================================================================= *)
(*                               Properties                                *)
(* ======================================================================= *)
Terminal == {"done", "failed"}

\* the response in reply answers an upload whose row was inserted
AnswersJob == reply.op = "upload_image" /\ reply.job # 0

\* ... and whose worker was invoked (the refresh before the try did not raise)
AnswersInvokedJob == AnswersJob /\ "refresh" \notin reply.faults

(* C1: when upload_image answers the caller for a job whose worker was      *)
(* invoked, whatever step failed (the worker, the put of the result, the    *)
(* commit of the new status), the row is persisted as done or failed, never *)
(* still as processing.                                                     *)
C1_TerminalWhenAnswered ==
  AnswersInvokedJob => records[reply.job].status \in Terminal

C3_StatusStep ==
  /\ \A id \in DOMAIN records :
       /\ id \in DOMAIN records'
       /\ records[id].status \in Terminal =>
            records'[id].status = records[id].status
       /\ records'[id].status # records[id].status =>
            records[id].status = "processing" /\ records'[id].status \in Terminal
  /\ \A id \in (DOMAIN records') \ (DOMAIN records) :
       records'[id].status = "processing"

\* C3: every step keeps the status of a row monotone (processing, then at
\* most one change, to done or failed)
C3_StatusMonotone == [][C3_StatusStep]_vars

\* a row is done, another is failed, and a later read has been served
C3_Witness ==
  /\ \E id \in DOMAIN records : records[id].status = "done"
  /\ \E id \in DOMAIN records : records[id].status = "failed"
  /\ reply.op = "get_history" /\ reply.code = 200

(* C4: whenever upload_image answers the caller for a job whose row was     *)
(* inserted, the persisted status agrees with the answer: {id, status:      *)
(* done} implies the row is done, an error implies the row is failed.       *)
C4_StatusMatchesAnswer ==
  AnswersJob =>
    /\ reply.code = 200 => records[reply.job].status = "done"
    /\ reply.code # 200 => records[reply.job].status = "failed"

(* C5: when the worker failed in a submit, at the time the caller is        *)
(* answered the row is failed and not done, its result_filename is unset,   *)
(* no result blob exists for it, and the answer is the HTTPException(500)   *)
(* of the except clause ("Segmentation failed").                            *)
C5_WorkerFailure ==
  (AnswersJob /\ "worker" \in reply.faults) =>
    /\ records[reply.job].status = "failed"
    /\ records[reply.job].result_filename = None
    /\ ResultFilename(reply.job) \notin DOMAIN blobs
    /\ reply.code = 500 /\ reply.detail = "Segmentation failed"

(* C6: get_result for an existing row whose owner_id differs from the       *)
(* requester answers 403 Forbidden whatever the row's status, and carries   *)
(* neither the status nor a signed URL.                                     *)
C6_ForbiddenForNonOwner ==
  (/\ reply.op = "get_result"
   /\ reply.image_id \in DOMAIN records
   /\ records[reply.image_id].owner_id # reply.user)
  => (reply.code = 403 /\ reply.status = "" /\ reply.url = None)

\* a non-owner has asked for a row that is not done (its status is not leaked)
C6_Witness ==
  /\ reply.op = "get_result" /\ reply.code = 403
  /\ records[reply.image_id].status = "failed"

IsImageMediaType(ct) == Len(ct) >= 6 /\ SubSeq(ct, 1, 6) = ImagePrefix

(* C8: an upload with an image content type in which no store or worker     *)
(* step fails is answered {id, status: done} only once the row is persisted *)
(* as done with its result key; and a get_result by the owner with an id    *)
(* that upload_image returned, when signing does not fail, answers status   *)
(* done with the signed URL of results/result_<id>.png.                     *)
C8_DoneThenResult ==
  /\ (/\ reply.op = "upload_image"
      /\ IsImageMediaType(reply.content_type)
      /\ reply.faults = {})
     => /\ reply.code = 200 /\ reply.detail = "done"
        /\ reply.id = reply.job /\ reply.id \in DOMAIN records
        /\ records[reply.id].status = "done"
        /\ records[reply.id].result_filename = ResultFilename(reply.id)
        /\ ResultFilename(reply.id) \in DOMAIN blobs
  /\ (/\ reply.op = "get_result"
      /\ reply.image_id \in returned
      /\ reply.user = records[reply.image_id].owner_id
      /\ reply.code # 500)
     => /\ reply.code = 200 /\ reply.status = "done"
        /\ reply.url = presigned_get_object(ResultFilename(reply.image_id))
        /\ reply.url # None

\* the owner has asked for the result of an id upload_image returned
C8_Witness ==
  /\ reply.op = "get_result" /\ reply.image_id \in returned
  /\ reply.user = records[reply.image_id].owner_id
  /\ reply.code = 200

\* no request enters the wait for the worker in this step
NoWorkerInvoked ==
  \A p \in Procs : req'[p].pc = "await_worker" => req[p].pc = "await_worker"

(* C9: a submit whose content type is not an image media type never gets    *)
(* past the content-type test, is answered 400, and the step that answers   *)
(* it writes no blob, inserts no row, invokes no worker and leaves every    *)
(* user's history as it was.                                                *)
C9_Step ==
  /\ \A p \in Procs :
       req'[p].pc # "idle" => IsImageMediaType(req'[p].content_type)
  /\ (/\ reply'.op = "upload_image"
      /\ reply' # reply
      /\ ~IsImageMediaType(reply'.content_type))
     => /\ reply'.code = 400
        /\ records' = records /\ nextId' = nextId /\ blobs' = blobs
        /\ NoWorkerInvoked
        /\ \A u \in Users :
             HistoryOf(records', OwnedIds(records', u)) =
             HistoryOf(records, OwnedIds(records, u))

\* C9: every step treats a non-image submit as InvalidInput without effects
C9_InvalidInputNoEffects == [][C9_Step]_vars

\* text/plain has been refused to a user who has a row in the history
C9_Witness ==
  /\ reply.op = "upload_image" /\ reply.code = 400
  /\ reply.content_type = CT_text_plain
  /\ OwnedIds(records, reply.user) # {}

(* C10: when the put of the original fails (after the step the object is    *)
(* not in the bucket), the submit ends in that step with an error, no row   *)
(* is inserted for it (the table is as before) and the worker is not        *)
(* invoked.                                                                 *)
C10_Step ==
  \A p \in Procs :
    (/\ req[p].pc = "in_put_original"
     /\ req'[p] # req[p]
     /\ req[p].object_name \notin DOMAIN blobs')
    => /\ req'[p] = IdleReq
       /\ reply'.op = "upload_image" /\ reply'.code = 500 /\ reply'.job = 0
       /\ records' = records /\ nextId' = nextId
       /\ NoWorkerInvoked

\* C10: every step in which the put of the original fails ends the submit and
\* inserts no row
C10_NoRecordWhenOriginalFails == [][C10_Step]_vars

\* the put of an original has failed while the table holds a row
C10_Witness ==
  /\ reply.op = "upload_image" /\ "put_original" \in reply.faults
  /\ DOMAIN records # {}

(* C11: in get_history the failure to sign a URL for one row does not abort *)
(* the others: the call still answers with an entry for every row the       *)
(* requester owns.                                                          *)
C11_HistoryIsolatesSignFailures ==
  reply.op = "get_history" =>
    {reply.history[i].id : i \in DOMAIN reply.history}
      = OwnedIds(records, reply.user)

(* C12: get_result for an image_id that has no row answers 404 Not Found,   *)
(* whoever asks: the test for the row comes before the test of its owner,   *)
(* and the answer carries neither a status nor a URL.                       *)
C12_NotFoundWhenNoRecord ==
  (reply.op = "get_result" /\ reply.image_id \notin DOMAIN records) =>
    /\ reply.code = 404
    /\ reply.status = ""
    /\ reply.url = None

\* a 404 goes to a requester while rows of another owner exist
C12_Witness ==
  /\ reply.op = "get_result"
  /\ reply.image_id \notin DOMAIN records
  /\ reply.code = 404
  /\ \E id \in DOMAIN records : records[id].owner_id # reply.user

ReadOps == {"get_result", "get_history"}

(* C13: a step of get_result or get_history, whatever it answers (a status, *)
(* a signed URL, 404, 403, 500), leaves the table of rows and the bucket as *)
(* they were; and get_result answered 200 to the owner of a row that is     *)
(* done or failed reports the status the row has, so that asking again      *)
(* gives the same status.                                                   *)
C13_Step ==
  (reply'.op \in ReadOps /\ reply' # reply) =>
    /\ records' = records
    /\ blobs' = blobs
    /\ nextId' = nextId
    /\ (/\ reply'.op = "get_result"
        /\ reply'.code = 200
        /\ records[reply'.image_id].status \in Terminal)
       => reply'.status = records'[reply'.image_id].status

C13_ReadsChangeNothing == [][C13_Step]_vars

\* get_result has answered the owner of a failed row, and of a done row
C13_Witness ==
  /\ reply.op = "get_result"
  /\ reply.code = 200
  /\ reply.status = "failed"
  /\ \E id \in DOMAIN records : records[id].status = "done"

(* C14: when the worker returned the bytes and the put of the result        *)
(* raised, the row is never persisted as done: it is persisted as failed    *)
(* with result_filename unset, and the caller gets 500 Segmentation failed. *)
C14_ResultWriteFailure ==
  (AnswersJob /\ "put_result" \in reply.faults) =>
    /\ records[reply.job].status = "failed"
    /\ records[reply.job].result_filename = None
    /\ reply.code = 500 /\ reply.detail = "Segmentation failed"

\* the worker of request p has been invoked on its row
WorkerInvoked(p) ==
  req[p].pc \in {"await_worker", "in_put_result", "commit_done", "commit_failed"}

\* a row that is done has behind it the original, the row and the result
DoneHasCheckpoints ==
  \A id \in DOMAIN records :
    records[id].status = "done" =>
      /\ records[id].filename \in DOMAIN blobs
      /\ ResultFilename(id) \in DOMAIN blobs

(* C15: within one upload the checkpoints come in order: the original is in *)
(* the bucket before the step that inserts the row, the row is in the table *)
(* before the step that invokes the worker, the result is in the bucket     *)
(* before the step that persists the row as done; a row that is done has    *)
(* all the earlier checkpoints behind it.                                   *)
C15_Step ==
  /\ \A id \in (DOMAIN records') \ (DOMAIN records) :
       records'[id].filename \in DOMAIN blobs
  /\ \A p \in Procs :
       (WorkerInvoked(p)' /\ ~WorkerInvoked(p)) => req'[p].job \in DOMAIN records
  /\ \A id \in DOMAIN records :
       (records'[id].status = "done" /\ records[id].status # "done")
         => ResultFilename(id) \in DOMAIN blobs
  /\ DoneHasCheckpoints'

C15_CheckpointOrder == [][C15_Step]_vars

\* a row has been persisted as done
C15_Witness ==
  \E id \in DOMAIN records :
    /\ records[id].status = "done"
    /\ records[id].result_filename = ResultFilename(id)
    /\ {records[id].filename, ResultFilename(id)} \subseteq DOMAIN blobs

(* C16: the wait for the worker is bounded: an upload that is waiting for   *)
(* the executor ends (and with it its row leaves "processing") even when    *)
(* the worker never returns.                                                *)
C16_BoundedWorkerWait ==
  \A p \in Procs : (req[p].pc = "await_worker") ~> (req[p].pc = "idle")

(* C17: the object key is unique per upload: two rows, also two of the same *)
(* owner with the same file name at the same reading of the clock, never    *)
(* carry the same uploads/<owner>_<timestamp>_<filename> key, so no upload  *)
(* overwrites the original of another row.                                  *)
C17_ObjectKeyUnique ==
  \A i, j \in DOMAIN records :
    i # j => records[i].filename # records[j].filename

(* C18: created_at is the reading of the clock at the step that inserts the *)
(* row (so two rows inserted at different readings differ in created_at,    *)
(* the later one being later), and it never changes afterwards.             *)
C18_Step ==
  /\ \A id \in (DOMAIN records') \ (DOMAIN records) :
       records'[id].created_at = clock
  /\ \A id \in DOMAIN records :
       records'[id].created_at = records[id].created_at

C18_CreatedAtIsCreationTime == [][C18_Step]_vars

\* the three waits of an upload: for MinIO to acknowledge a put, for the
\* database to acknowledge a commit or a refresh, for the worker to complete
WaitsOnBlobStore(p) == req[p].pc \in BlockingCalls
WaitsOnRecordStore(p) ==
  req[p].pc \in {"commit_new", "refresh", "commit_done", "commit_failed"}
WaitsOnWorker(p) == req[p].pc = "await_worker"

\* a step of a request other than the upload p
OtherRequestStep(p) ==
  \/ get_result
  \/ get_history
  \/ \E q \in Procs \ {p} : \/ upload_image_begin(q)
                            \/ upload_step_but_worker(q)
                            \/ worker_complete(q)

(* C19: while an upload is at any of its three waits (and no response is on *)
(* its way out), the event loop can serve other requests: a step of another *)
(* request is enabled.                                                      *)
C19_DispatcherServesOthers ==
  \A p \in Procs :
    (/\ reply = NoReply
     /\ WaitsOnBlobStore(p) \/ WaitsOnRecordStore(p) \/ WaitsOnWorker(p))
      => ENABLED OtherRequestStep(p)

(* C20: under every interleaving each row references objects that are in    *)
(* the bucket: the object at its filename is there; if the row is done, the *)
(* object at results/result_<id>.png is there, is the row's result_filename *)
(* and holds the segmentation of the row's original; two rows never share a *)
(* result key.                                                              *)
C20_RecordsReferenceBlobs ==
  /\ \A id \in DOMAIN records :
       /\ records[id].filename \in DOMAIN blobs
       /\ records[id].status = "done" =>
            /\ records[id].result_filename = ResultFilename(id)
            /\ records[id].result_filename \in DOMAIN blobs
            /\ blobs[records[id].result_filename]
                 = simulate_segmentation_bytes(blobs[records[id].filename])
  /\ \A i, j \in DOMAIN records :
       (i # j /\ records[i].result_filename # None)
         => records[i].result_filename # records[j].result_filename

\* two rows are done, their uploads having written the same original key
C20_Witness ==
  \E i, j \in DOMAIN records :
    /\ i # j
    /\ records[i].status = "done" /\ records[j].status = "done"
    /\ records[i].filename = records[j].filename

====
